---- MODULE Spec2Model ----
(***************************************************************************)
(* Model of delorean_table/src/sorter.rs: sort() over a slice of Packers   *)
(* columns, implemented as a quicksort with Hoare's partitioning scheme,   *)
(* a multi-column comparator and a cross-column swap.                      *)
(*                                                                         *)
(* Row indices are 0-based as in the source; a column's values are kept in *)
(* a TLA+ sequence, so row r of a column is vals[r + 1].  A cell is an     *)
(* Option: <<>> is None (null) and <<v>> is Some(v).  A string value is    *)
(* the sequence of its bytes; an integer value is an integer.              *)
(***************************************************************************)
EXTENDS Integers, Sequences, FiniteSets, TLC

\* ---------------------------------------------------------------- bounds
MaxCols == 2
MaxRows == 4
MaxCells == 4
MaxSortBy == 2
MaxInt == 1

\* ------------------------------------------------------ program constants
\* sorter.rs:39 sets 1000; the threshold is scaled down with the row bound
\* so that inputs both below and above it are explored.
SORTED_CHECK_SIZE == 2

\* usize::MAX, at a width of 16 bits (the model checker's integers are
\* narrower than 64 bits); only the wrap of 0 - 1 depends on it.
UsizeMax == 65535

\* ------------------------------------------------------------ data model
Kinds == {"String", "Integer", "Float"}

\* "a", "ab", "b" as byte sequences
StrVals == {<<97>>, <<97, 98>>, <<98>>}
IntVals == 0..MaxInt
FloatVals == {0}

None == <<>>
Some(v) == <<v>>

ValsOf(kind) ==
    CASE kind = "String" -> StrVals
      [] kind = "Integer" -> IntVals
      [] OTHER -> FloatVals

Cells(kind) == {None} \cup {Some(v) : v \in ValsOf(kind)}

\* a Packers column of n rows: its variant and its Option values
ColumnsOf(n) == UNION {[kind : {k}, vals : [1..n -> Cells(k)]] : k \in Kinds}

\* the inputs: column collections whose columns share one row count; a
\* collection of several columns holds at most MaxCells values
PackersInputs ==
    UNION {[1..c -> ColumnsOf(n)] :
             <<c, n>> \in {cn \in (0..MaxCols) \X (0..MaxRows) :
                             /\ (cn[1] >= 2 => cn[1] * cn[2] <= MaxCells)
                             /\ (cn[1] = 0 => cn[2] = 0)}}

SortByInputs == UNION {[1..l -> 0..MaxCols] : l \in 0..MaxSortBy}

ErrorKinds == {"TooManyColumns", "RepeatedColumns", "OutOfBoundsColumnIndex"}

VARIABLES
    packers,    \* the column collection being sorted (mutated in place)
    sort_by,    \* the sort-key column indices
    pc,         \* position of the call: call, quicksort_by, scan_i, scan_j,
                \* check, partitioned, done
    result,     \* "None" while running; Ok, an Error kind, or Panic
    stack,      \* pending quicksort_by calls, next call first
    range,      \* range of the running partition call
    pivot,      \* partition's pivot index
    i,          \* partition's left cursor
    j,          \* partition's right cursor (and its return value)
    packers0,   \* the collection as passed to sort (history)
    swaps,      \* number of swap calls performed (history)
    engine      \* whether quicksort_by was invoked (history)

vars == <<packers, sort_by, pc, result, stack, range, pivot, i, j,
          packers0, swaps, engine>>

\* ------------------------------------------------------- Packer accessors
num_rows(col) == Len(col.vals)

InBounds(col, r) == r >= 0 /\ r < Len(col.vals)

Get(col, r) == col.vals[r + 1]

\* ------------------------------------------------------------- comparator
OrdOfInt(a, b) == IF a < b THEN "Less" ELSE IF a > b THEN "Greater" ELSE "Equal"

\* str::cmp: lexicographic comparison of the byte sequences
RECURSIVE StrCmp(_, _)
StrCmp(s, t) ==
    IF Len(s) = 0 /\ Len(t) = 0 THEN "Equal"
    ELSE IF Len(s) = 0 THEN "Less"
    ELSE IF Len(t) = 0 THEN "Greater"
    ELSE IF Head(s) # Head(t) THEN OrdOfInt(Head(s), Head(t))
    ELSE StrCmp(Tail(s), Tail(t))

\* Option::<&i64>::cmp: None is less than every Some
OptionCmp(x, y) ==
    IF x = None /\ y = None THEN "Equal"
    ELSE IF x = None THEN "Less"
    ELSE IF y = None THEN "Greater"
    ELSE OrdOfInt(x[1], y[1])

RECURSIVE CmpFrom(_, _, _, _, _)
CmpFrom(p, a, b, sb, k) ==
    IF k > Len(sb) THEN "Equal"
    ELSE LET col == p[sb[k] + 1] IN
         IF col.kind = "String" THEN
             IF ~InBounds(col, a) \/ ~InBounds(col, b) THEN "Panic"
             ELSE LET a_val == Get(col, a)
                      b_val == Get(col, b)
                  IN IF a_val = None /\ b_val = None THEN CmpFrom(p, a, b, sb, k + 1)
                     ELSE IF a_val = None THEN "Greater"
                     ELSE IF b_val = None THEN "Less"
                     ELSE LET c == StrCmp(a_val[1], b_val[1])
                          IN IF c # "Equal" THEN c
                             ELSE CmpFrom(p, a, b, sb, k + 1)
         ELSE IF col.kind = "Integer" THEN
             IF ~InBounds(col, a) \/ ~InBounds(col, b) THEN "Panic"
             ELSE LET c == OptionCmp(Get(col, a), Get(col, b))
                  IN IF c # "Equal" THEN c
                     ELSE CmpFrom(p, a, b, sb, k + 1)
         ELSE CmpFrom(p, a, b, sb, k + 1)

cmp(p, a, b, sb) == CmpFrom(p, a, b, sb, 1)

\* ------------------------------------------------------------------- swap
SwapVals(vals, a, b) ==
    [r \in 1..Len(vals) |->
        IF r = a + 1 THEN vals[b + 1]
        ELSE IF r = b + 1 THEN vals[a + 1]
        ELSE vals[r]]

\* a swap that exchanges the rows of the first column only
swapFirstColumnOnly(p, a, b) ==
    [c \in 1..Len(p) |->
        IF c = 1 THEN [kind |-> p[c].kind, vals |-> SwapVals(p[c].vals, a, b)]
        ELSE p[c]]

swap(p, a, b) ==
    [c \in 1..Len(p) |-> [kind |-> p[c].kind, vals |-> SwapVals(p[c].vals, a, b)]]

SwapInBounds(p, a, b) ==
    \A c \in 1..Len(p) : InBounds(p[c], a) /\ InBounds(p[c], b)

\* ------------------------------------------------------------- validation
ColSet(sb) == {sb[k] : k \in 1..Len(sb)}

\* validation that forgets the early return for an empty sort_by
ValidateNoEmptyKeys(p, sb) ==
    IF Len(p) = 0 THEN "Ok"
    ELSE IF Len(sb) > Len(p) THEN "TooManyColumns"
    ELSE IF Cardinality(ColSet(sb)) < Len(sb) THEN "RepeatedColumns"
    ELSE IF \E idx \in ColSet(sb) : idx >= Len(p) THEN "OutOfBoundsColumnIndex"
    ELSE "Sort"

\* the checks of sort() before any row is read; "Sort" stands for falling
\* through to the sorting part of the function
Validate(p, sb) ==
    IF Len(p) = 0 \/ Len(sb) = 0 THEN "Ok"
    ELSE IF Len(sb) > Len(p) THEN "TooManyColumns"
    ELSE IF Cardinality(ColSet(sb)) < Len(sb) THEN "RepeatedColumns"
    ELSE IF \E idx \in ColSet(sb) : idx >= Len(p) THEN "OutOfBoundsColumnIndex"
    ELSE "Sort"

\* the linear scan of sort(): the value of `sorted` after the loop
ScanSorted(p, n, sb) == \A r \in 1..(n - 1) : cmp(p, 0, r, sb) = "Equal"

\* ---------------------------------------------------------- partitioning
Pivot(r) == (r.start + r.end) \div 2

\* a left scan that compares in the descending direction
AdvanceIDescending(c) == c = "Greater"

AdvanceI(c) == c = "Less"

RetreatJ(c) == c = "Greater"

\* recursive calls whose right range starts at the boundary itself
SubRangesOverlap(r, piv) ==
    <<[start |-> r.start, end |-> piv], [start |-> piv, end |-> r.end]>>

\* the two recursive calls of quicksort_by, in call order
SubRanges(r, piv) ==
    <<[start |-> r.start, end |-> piv], [start |-> piv + 1, end |-> r.end]>>

\* ------------------------------------------------------------------- Init
NoRange == [start |-> 0, end |-> 0]

Init ==
    /\ packers \in PackersInputs
    /\ sort_by \in SortByInputs
    /\ pc = "call"
    /\ result = "None"
    /\ stack = <<>>
    /\ range = NoRange
    /\ pivot = 0
    /\ i = 0
    /\ j = 0
    /\ packers0 = packers
    /\ swaps = 0
    /\ engine = FALSE

\* ---------------------------------------------------------------- actions
Finish(r) ==
    /\ pc' = "done"
    /\ result' = r

\* sort(): validation, the already-sorted scan, and the call of quicksort_by
Sort ==
    /\ pc = "call"
    /\ LET v == Validate(packers, sort_by) IN
       IF v # "Sort" THEN
           /\ Finish(v)
           /\ UNCHANGED <<stack, engine>>
       ELSE LET n == num_rows(packers[1]) IN
            IF n > SORTED_CHECK_SIZE /\ ScanSorted(packers, n, sort_by) THEN
                /\ Finish("Ok")
                /\ UNCHANGED <<stack, engine>>
            ELSE \E overflow_checks \in BOOLEAN :
                IF n = 0 /\ overflow_checks THEN
                    \* n - 1 panics: attempt to subtract with overflow
                    /\ Finish("Panic")
                    /\ UNCHANGED <<stack, engine>>
                ELSE
                    /\ pc' = "quicksort_by"
                    /\ stack' = <<[start |-> 0,
                                   end |-> IF n = 0 THEN UsizeMax ELSE n - 1]>>
                    /\ engine' = TRUE
                    /\ UNCHANGED result
    /\ UNCHANGED <<packers, sort_by, range, pivot, i, j, packers0, swaps>>

\* quicksort_by: entry of the next pending call
QuicksortBy ==
    /\ pc = "quicksort_by"
    /\ stack # <<>>
    /\ LET r == Head(stack) IN
       IF r.start >= r.end THEN
           /\ stack' = Tail(stack)
           /\ UNCHANGED <<pc, range, pivot, i, j>>
       ELSE
           /\ stack' = Tail(stack)
           /\ pc' = "scan_i"
           /\ range' = r
           /\ pivot' = Pivot(r)
           /\ i' = r.start
           /\ j' = r.end
    /\ UNCHANGED <<packers, sort_by, result, packers0, swaps, engine>>

\* partition: one test of the first inner while loop
ScanI ==
    /\ pc = "scan_i"
    /\ LET c == cmp(packers, i, pivot, sort_by) IN
       IF c = "Panic" THEN
           /\ Finish("Panic")
           /\ UNCHANGED i
       ELSE IF AdvanceI(c) THEN
           /\ i' = i + 1
           /\ UNCHANGED <<pc, result>>
       ELSE
           /\ pc' = "scan_j"
           /\ UNCHANGED <<i, result>>
    /\ UNCHANGED <<packers, sort_by, stack, range, pivot, j, packers0, swaps,
                   engine>>

\* partition: one test of the second inner while loop
ScanJ ==
    /\ pc = "scan_j"
    /\ LET c == cmp(packers, j, pivot, sort_by) IN
       IF c = "Panic" THEN
           /\ Finish("Panic")
           /\ UNCHANGED j
       ELSE IF RetreatJ(c) THEN
           \E overflow_checks \in BOOLEAN :
               IF j = 0 /\ overflow_checks THEN
                   /\ Finish("Panic")
                   /\ UNCHANGED j
               ELSE
                   /\ j' = IF j = 0 THEN UsizeMax ELSE j - 1
                   /\ UNCHANGED <<pc, result>>
       ELSE
           /\ pc' = "check"
           /\ UNCHANGED <<j, result>>
    /\ UNCHANGED <<packers, sort_by, stack, range, pivot, i, packers0, swaps,
                   engine>>

\* partition: `if i >= j { return j; }`
PartitionReturn ==
    /\ pc = "check"
    /\ i >= j
    /\ pc' = "partitioned"
    /\ UNCHANGED <<packers, sort_by, result, stack, range, pivot, i, j,
                   packers0, swaps, engine>>

\* partition: swap(packers, i, j); i += 1; j -= 1
Swap ==
    /\ pc = "check"
    /\ i < j
    /\ IF ~SwapInBounds(packers, i, j) THEN
           /\ Finish("Panic")
           /\ UNCHANGED <<packers, i, j, swaps>>
       ELSE
           /\ packers' = swap(packers, i, j)
           /\ swaps' = swaps + 1
           /\ i' = i + 1
           /\ j' = j - 1
           /\ pc' = "scan_i"
           /\ UNCHANGED result
    /\ UNCHANGED <<sort_by, stack, range, pivot, packers0, engine>>

\* quicksort_by: partition has returned j; the two recursive calls follow
Recurse ==
    /\ pc = "partitioned"
    /\ stack' = SubRanges(range, j) \o stack
    /\ pc' = "quicksort_by"
    /\ UNCHANGED <<packers, sort_by, result, range, pivot, i, j, packers0,
                   swaps, engine>>

\* the outermost quicksort_by has returned: sort returns Ok(())
SortReturn ==
    /\ pc = "quicksort_by"
    /\ stack = <<>>
    /\ Finish("Ok")
    /\ UNCHANGED <<packers, sort_by, stack, range, pivot, i, j, packers0,
                   swaps, engine>>

Next ==
    \/ Sort
    \/ QuicksortBy
    \/ ScanI
    \/ ScanJ
    \/ PartitionReturn
    \/ Swap
    \/ Recurse
    \/ SortReturn

Spec == Init /\ [][Next]_vars

\* the call is synchronous and single-threaded: it keeps running until it
\* returns or panics
FairSpec == Spec /\ WF_vars(Next)

\* ------------------------------------------------- vocabulary of the claims
NumRows(p) == IF Len(p) = 0 THEN 0 ELSE num_rows(p[1])

RowIdx(p) == 0..(NumRows(p) - 1)

\* the input constraints of sort: a non-empty collection, a non-empty key
\* list no longer than the collection, no index repeated, every index in range
PassesValidation(p, sb) ==
    /\ Len(p) > 0
    /\ Len(sb) > 0
    /\ Len(sb) <= Len(p)
    /\ \A k, l \in 1..Len(sb) : sb[k] = sb[l] => k = l
    /\ \A k \in 1..Len(sb) : sb[k] < Len(p)

\* rows are non-decreasing under the comparator
Sorted(p, sb) ==
    \A r \in RowIdx(p) : (r + 1) \in RowIdx(p) => cmp(p, r, r + 1, sb) # "Greater"

\* the row tuple at position r
Row(p, r) == [c \in 1..Len(p) |-> p[c].vals[r + 1]]

Count(p, row) == Cardinality({r \in RowIdx(p) : Row(p, r) = row})

SameShape(p, q) ==
    /\ Len(p) = Len(q)
    /\ \A c \in 1..Len(p) : p[c].kind = q[c].kind /\ Len(p[c].vals) = Len(q[c].vals)

\* p above q: row r of q is row NumRows(p) + r of the result
Stack2(p, q) ==
    [c \in 1..Len(p) |-> [kind |-> p[c].kind, vals |-> p[c].vals \o q[c].vals]]

\* C1: for a validated input with at least one row, when sort returns Ok
\* every adjacent pair of output rows i, i+1 has cmp(i, i+1, sort_by) not
\* Greater.
C1_OrderOnOk ==
    (/\ PassesValidation(packers0, sort_by)
     /\ NumRows(packers0) >= 1
     /\ pc = "done"
     /\ result = "Ok")
    => Sorted(packers, sort_by)

\* C2: at every point of sort and in its final state the rows of the
\* collection are a permutation of the input's rows: the multiset of row
\* tuples, the row count and the columns' kinds are those of the input.
C2_Permutation ==
    /\ SameShape(packers, packers0)
    /\ \A r \in RowIdx(packers0) :
          Count(packers, Row(packers0, r)) = Count(packers0, Row(packers0, r))

C2_Witness ==
    /\ pc = "done"
    /\ result = "Ok"
    /\ swaps > 0
    /\ \E c \in 1..Len(packers) :
          /\ (c - 1) \notin ColSet(sort_by)
          /\ packers[c] # packers0[c]

\* the result the claim C3 prescribes
C3_Prescribed(p, sb) ==
    IF Len(p) = 0 \/ Len(sb) = 0 THEN "Ok"
    ELSE IF Len(sb) > Len(p) THEN "TooManyColumns"
    ELSE IF \E k, l \in 1..Len(sb) : k # l /\ sb[k] = sb[l] THEN "RepeatedColumns"
    ELSE IF \E k \in 1..Len(sb) : sb[k] >= Len(p) THEN "OutOfBoundsColumnIndex"
    ELSE "Ok"

\* C3: the result of sort is decided by the checks in order: Ok for an
\* empty collection or empty sort_by, else TooManyColumns, else
\* RepeatedColumns, else OutOfBoundsColumnIndex, else the sort runs and
\* returns Ok.
C3_ResultDecided ==
    pc = "done" => result = C3_Prescribed(packers0, sort_by)

\* the part of C3 that the code satisfies: whenever sort returns a value, it
\* is the prescribed one
C3_ResultWhenReturned ==
    (pc = "done" /\ result # "Panic") => result = C3_Prescribed(packers0, sort_by)

\* C4: when sort returns an error, or is called with an empty collection or
\* an empty sort_by, no swap is performed and every column holds the same
\* values at the same positions as before the call.
C4_NoMutation ==
    (\/ result \in ErrorKinds
     \/ Len(packers0) = 0
     \/ Len(sort_by) = 0)
    => (swaps = 0 /\ ~engine /\ packers = packers0)

C4_Witness ==
    /\ pc = "done"
    /\ result \in ErrorKinds
    /\ NumRows(packers0) >= 2
    /\ \E r \in RowIdx(packers0) : Row(packers0, r) # Row(packers0, 0)

\* C5: nulls sort last in string and integer key columns alike: for rows a,
\* b equal on all earlier key columns, a null and b a value in the current
\* key column gives cmp(a, b) = Greater and cmp(b, a) = Less.
C5_NullsLast ==
    PassesValidation(packers, sort_by) =>
        \A k \in 1..Len(sort_by) : \A a, b \in RowIdx(packers) :
            LET col == packers[sort_by[k] + 1] IN
            (/\ col.kind \in {"String", "Integer"}
             /\ cmp(packers, a, b, SubSeq(sort_by, 1, k - 1)) = "Equal"
             /\ Get(col, a) = None
             /\ Get(col, b) # None)
            => (/\ cmp(packers, a, b, sort_by) = "Greater"
                /\ cmp(packers, b, a, sort_by) = "Less")

\* C6: for a validated input with at least one row sort runs to completion
\* and returns Ok, and each recursive range lies within its parent range and
\* is strictly smaller than it.
C6_Terminates ==
    /\ (/\ pc = "call"
        /\ PassesValidation(packers0, sort_by)
        /\ NumRows(packers0) >= 1)
       ~> (pc = "done" /\ result = "Ok")
    /\ [][(pc = "partitioned" /\ NumRows(packers0) >= 1) =>
            \A k \in 1..2 :
                /\ stack'[k].start >= range.start
                /\ stack'[k].end <= range.end
                /\ stack'[k].end - stack'[k].start < range.end - range.start]_vars

C6_Witness ==
    /\ pc = "done"
    /\ result = "Ok"
    /\ engine
    /\ swaps >= 2
    /\ NumRows(packers0) >= 3

\* C7: a validated input with more rows than SORTED_CHECK_SIZE whose rows
\* are already non-decreasing is recognised as sorted: sort returns Ok
\* without invoking quicksort_by, so no swap is performed.
C7_SortedSkipsEngine ==
    (/\ PassesValidation(packers0, sort_by)
     /\ NumRows(packers0) > SORTED_CHECK_SIZE
     /\ Sorted(packers0, sort_by))
    => (/\ ~engine
        /\ swaps = 0
        /\ (pc = "done" => result = "Ok"))

\* C8: sorting an already-sorted collection keeps its order: after sort the
\* row at every position compares Equal under sort_by to the row that was
\* there before the call, and the output is still non-decreasing.
C8_SortedKept ==
    (/\ pc = "done"
     /\ PassesValidation(packers0, sort_by)
     /\ Sorted(packers0, sort_by))
    => (/\ SameShape(packers, packers0)
        /\ \A r \in RowIdx(packers0) :
              cmp(Stack2(packers, packers0), r, NumRows(packers0) + r, sort_by)
                  = "Equal"
        /\ Sorted(packers, sort_by))

C8_Witness ==
    /\ pc = "done"
    /\ PassesValidation(packers0, sort_by)
    /\ Sorted(packers0, sort_by)
    /\ swaps > 0
    /\ packers # packers0

\* C9: when partition on [start, end] with start < end returns j, then
\* start <= j < end and no row in [start, j] compares Greater than a row in
\* [j+1, end].
C9_PartitionBoundary ==
    pc = "partitioned" =>
        /\ range.start <= j
        /\ j < range.end
        /\ \A x \in range.start..j : \A y \in (j + 1)..range.end :
              cmp(packers, x, y, sort_by) # "Greater"

\* C10: for a non-empty collection of zero-row columns and a valid non-empty
\* sort_by, sort returns Ok without entering the partition engine.
C10_ZeroRowsOk ==
    (/\ PassesValidation(packers0, sort_by)
     /\ NumRows(packers0) = 0)
    => (/\ ~engine
        /\ result # "Panic"
        /\ (pc = "done" => result = "Ok"))

====
